---- MODULE Spec2Model ----
(***************************************************************************)
(* A model of the mllwriter crate (src/src/lib.rs): the Markup-language-   *)
(* like writers HTMLWriter, XMLWriter and JSONWriter over the shared       *)
(* WriterCore.                                                             *)
(*                                                                         *)
(* A Rust String is modelled as a sequence of one-character strings, so    *)
(* that push, push_str and pop act on the text as the code does.  A panic  *)
(* (a failed assert!, an unwrap() of None) is modelled by the field err    *)
(* of the writer: the writer keeps the state it had where the panic was    *)
(* raised, and no further operation is run on it.                          *)
(***************************************************************************)
EXTENDS Integers, Sequences, FiniteSets, TLC

\* ------------------------------------------------------------------ bounds
\* Calls made on one writer, from its construction on.
MaxCalls == 3
\* Longest name the notation rule is tried on.
MaxNameLen == 2
\* Longest Property list the properties operations are tried on.
MaxProps == 2
\* Calls made on one JSONWriter that writes a document.
MaxDocCalls == 6
\* Widest indent step and deepest level the indentation operations are
\* tried with.
MaxWidth == 4
MaxLevel == 3

\* -------------------------------------------------------------- characters
Lower == {"a","b","c","d","e","f","g","h","i","j","k","l","m",
          "n","o","p","q","r","s","t","u","v","w","x","y","z"}
Upper == {"A","B","C","D","E","F","G","H","I","J","K","L","M",
          "N","O","P","Q","R","S","T","U","V","W","X","Y","Z"}
Digit == {"0","1","2","3","4","5","6","7","8","9"}

\* char::is_ascii_alphanumeric
is_ascii_alphanumeric(c) == c \in Lower \cup Upper \cup Digit
\* char::is_ascii_alphabetic
is_ascii_alphabetic(c) == c \in Lower \cup Upper
\* char::is_lowercase, on the characters that passed is_ascii_alphabetic
is_lowercase(c) == c \in Lower

\* " ".repeat(n)
repeat(c, n) == [i \in 1..n |-> c]

\* String::pop: removes the last character, does nothing on the empty string
pop(s) == IF Len(s) = 0 THEN s ELSE SubSeq(s, 1, Len(s) - 1)

\* ------------------------------------------------------------------ inputs
\* Tag and property names the callers pass: a lowercase letter, a digit and
\* an uppercase letter.
Names == { <<"a">>, <<"1">>, <<"A">> }
\* The tags open_tag and single_tag are called with: these names and the
\* empty one.
Tags == Names \cup { <<>> }
\* Property values and comment texts the callers pass.
Values == { <<"x">> }
Comments == { <<"c">> }
\* The (name, value) pairs the callers pass with a tag.
Pairs == { <<(<<"a">>), (<<"x">>)>>, <<(<<"A">>), (<<"x">>)>> }
\* Property::new pushes a first pair and Property::add pushes more: a
\* Property list is never empty.  The lists the callers pass.
Properties ==
    { << <<(<<"a">>), (<<"x">>)>> >>,
      << <<(<<"a">>), (<<"x">>)>>, <<(<<"1">>), (<<"x">>)>> >>,
      << <<(<<"a">>), (<<"x">>)>>, <<(<<"A">>), (<<"x">>)>> >> }
\* The n of line_feed(n), the levels of set_indent_step and the widths of
\* set_indent_step_size the callers pass.
Feeds == { 2 }
Levels == { 2 }
StepSizes == { 3 }

\* -------------------------------------------------------------- WriterCore
\* WriterCore::new
WriterCore_new(indent_step_size) ==
    [ indent_step_size |-> indent_step_size,
      indent           |-> <<>>,
      block_stack      |-> <<>> ]

\* clear that leaves the step size as it finds it
WriterCore_clear_keep(core, indent_step) ==
    [ core EXCEPT !.indent = <<>>, !.block_stack = <<>> ]

\* WriterCore::clear
WriterCore_clear(core, indent_step) ==
    [ core EXCEPT !.indent_step_size = indent_step,
                  !.indent = <<>>,
                  !.block_stack = <<>> ]

\* WriterCore::line_feed: the content after n line feeds and the indent
WriterCore_line_feed(core, content, n) ==
    content \o repeat("\n", n) \o core.indent

\* inc_indent_step that pushes one space whatever the step size is
WriterCore_inc_indent_step_one(core) ==
    [ core EXCEPT !.indent = @ \o <<" ">> ]

\* WriterCore::inc_indent_step
WriterCore_inc_indent_step(core) ==
    [ core EXCEPT !.indent = @ \o repeat(" ", core.indent_step_size) ]

\* dec_indent_step that empties the indent whatever its length is
WriterCore_dec_indent_step_clear(core) ==
    [ core EXCEPT !.indent = <<>> ]

\* WriterCore::dec_indent_step
WriterCore_dec_indent_step(core) ==
    LET len == Len(core.indent) IN
    IF core.indent_step_size > len
    THEN [ core EXCEPT !.indent = <<>> ]
    ELSE [ core EXCEPT !.indent = SubSeq(@, 1, len - core.indent_step_size) ]

\* line_feed_inc that writes the line before it raises the indent
WriterCore_line_feed_inc_late(core, content) ==
    [ core |-> WriterCore_inc_indent_step(core),
      content |-> WriterCore_line_feed(core, content, 1) ]

\* WriterCore::line_feed_inc: the core and the content after it
WriterCore_line_feed_inc(core, content) ==
    LET c1 == WriterCore_inc_indent_step(core) IN
    [ core |-> c1, content |-> WriterCore_line_feed(c1, content, 1) ]

\* WriterCore::line_feed_dec: the core and the content after it
WriterCore_line_feed_dec(core, content) ==
    LET c1 == WriterCore_dec_indent_step(core) IN
    [ core |-> c1, content |-> WriterCore_line_feed(c1, content, 1) ]

\* set_indent_step that pushes the spaces behind the indent it finds
WriterCore_set_indent_step_add(core, indent_step) ==
    [ core EXCEPT !.indent = @ \o repeat(" ", indent_step * core.indent_step_size) ]

\* WriterCore::set_indent_step
WriterCore_set_indent_step(core, indent_step) ==
    [ core EXCEPT !.indent = repeat(" ", indent_step * core.indent_step_size) ]

\* set_indent_step_size that also drops the indent built with the old width
WriterCore_set_indent_step_size_reset(core, indent_step_size) ==
    [ core EXCEPT !.indent_step_size = indent_step_size, !.indent = <<>> ]

\* WriterCore::set_indent_step_size
WriterCore_set_indent_step_size(core, indent_step_size) ==
    [ core EXCEPT !.indent_step_size = indent_step_size ]

\* ---------------------------------------------------- assert_html_notation
\* A panic: the writer as it is where the panic is raised
panic(w, what) == [ w EXCEPT !.err = what ]

\* The rule without its second assert!: uppercase letters pass
assert_html_notation_alnum(tag) ==
    \A i \in 1..Len(tag) : is_ascii_alphanumeric(tag[i])

\* TRUE when neither assert! of assert_html_notation panics
assert_html_notation(tag) ==
    /\ \A i \in 1..Len(tag) : is_ascii_alphanumeric(tag[i])
    /\ \A i \in { j \in 1..Len(tag) : is_ascii_alphabetic(tag[j]) } :
           is_lowercase(tag[i])

\* -------------------------------------------------------------- HTMLWriter
\* HTMLWriter::new
HTMLWriter_new ==
    [ kind |-> "html", content |-> <<>>, core |-> WriterCore_new(4), err |-> "none" ]

\* open_tag that forgets to push the tag on the block stack
HTMLWriter_open_tag_nopush(w, tag) ==
    IF ~assert_html_notation(tag) THEN panic(w, "InvalidNotation")
    ELSE [ w EXCEPT !.content = @ \o <<"<">> \o tag \o <<">">> ]

\* HTMLWriter::open_tag
HTMLWriter_open_tag(w, tag) ==
    IF ~assert_html_notation(tag) THEN panic(w, "InvalidNotation")
    ELSE [ w EXCEPT !.content = @ \o <<"<">> \o tag \o <<">">>,
                    !.core.block_stack = Append(@, tag) ]

\* close_tag that reads the last tag of the block stack and leaves it there
HTMLWriter_close_tag_keep(w) ==
    IF Len(w.core.block_stack) = 0 THEN panic(w, "StackUnderflow")
    ELSE LET tag == w.core.block_stack[Len(w.core.block_stack)] IN
         [ w EXCEPT !.content = @ \o <<"<", "/">> \o tag \o <<">">> ]

\* close_tag with unwrap_or_default() in place of unwrap()
HTMLWriter_close_tag_lenient(w) ==
    LET tag == IF Len(w.core.block_stack) = 0 THEN <<>>
               ELSE w.core.block_stack[Len(w.core.block_stack)] IN
    [ w EXCEPT !.core.block_stack = pop(@),
               !.content = @ \o <<"<", "/">> \o tag \o <<">">> ]

\* close_tag that takes the first tag of the block stack, not the last
HTMLWriter_close_tag_fifo(w) ==
    IF Len(w.core.block_stack) = 0 THEN panic(w, "StackUnderflow")
    ELSE LET tag == w.core.block_stack[1] IN
         [ w EXCEPT !.core.block_stack = Tail(@),
                    !.content = @ \o <<"<", "/">> \o tag \o <<">">> ]

\* close_tag that takes the element below the closed one off the stack too
HTMLWriter_close_tag_two(w) ==
    IF Len(w.core.block_stack) = 0 THEN panic(w, "StackUnderflow")
    ELSE LET tag == w.core.block_stack[Len(w.core.block_stack)] IN
         [ w EXCEPT !.core.block_stack = pop(pop(@)),
                    !.content = @ \o <<"<", "/">> \o tag \o <<">">> ]

\* HTMLWriter::close_tag
HTMLWriter_close_tag(w) ==
    IF Len(w.core.block_stack) = 0 THEN panic(w, "StackUnderflow")
    ELSE LET tag == w.core.block_stack[Len(w.core.block_stack)] IN
         [ w EXCEPT !.core.block_stack = pop(@),
                    !.content = @ \o <<"<", "/">> \o tag \o <<">">> ]

\* single_tag that pushes the tag on the block stack, as open_tag does
HTMLWriter_single_tag_push(w, tag) ==
    IF ~assert_html_notation(tag) THEN panic(w, "InvalidNotation")
    ELSE [ w EXCEPT !.content = @ \o <<"<">> \o tag \o <<">">>,
                    !.core.block_stack = Append(@, tag) ]

\* HTMLWriter::single_tag
HTMLWriter_single_tag(w, tag) ==
    IF ~assert_html_notation(tag) THEN panic(w, "InvalidNotation")
    ELSE [ w EXCEPT !.content = @ \o <<"<">> \o tag \o <<">">> ]

\* add_property that does not remove the last character of the content
HTMLWriter_add_property_nopop(w, prop, value) ==
    IF ~assert_html_notation(prop) THEN panic(w, "InvalidNotation")
    ELSE [ w EXCEPT !.content =
               @ \o <<" ">> \o prop \o <<"=", "\"">> \o value \o <<"\"", ">">> ]

\* add_property that retracts the last character only when it is a bracket
HTMLWriter_add_property_guard(w, prop, value) ==
    IF ~assert_html_notation(prop) THEN panic(w, "InvalidNotation")
    ELSE [ w EXCEPT !.content =
               (IF Len(@) > 0 /\ @[Len(@)] = ">" THEN pop(@) ELSE @)
                  \o <<" ">> \o prop \o <<"=", "\"">> \o value \o <<"\"", ">">> ]

\* HTMLWriter::add_property
HTMLWriter_add_property(w, prop, value) ==
    IF ~assert_html_notation(prop) THEN panic(w, "InvalidNotation")
    ELSE [ w EXCEPT !.content =
               pop(@) \o <<" ">> \o prop \o <<"=", "\"">> \o value \o <<"\"", ">">> ]

\* open_tag_w_property that writes the element as single_tag does
HTMLWriter_open_tag_w_property_single(w, tag, prop, value) ==
    IF ~assert_html_notation(tag) THEN panic(w, "InvalidNotation")
    ELSE LET w1 == HTMLWriter_single_tag(w, tag) IN
         IF w1.err # "none" THEN w1 ELSE HTMLWriter_add_property(w1, prop, value)

\* HTMLWriter::open_tag_w_property
HTMLWriter_open_tag_w_property(w, tag, prop, value) ==
    IF ~assert_html_notation(tag) THEN panic(w, "InvalidNotation")
    ELSE LET w1 == HTMLWriter_open_tag(w, tag) IN
         IF w1.err # "none" THEN w1 ELSE HTMLWriter_add_property(w1, prop, value)

\* HTMLWriter::single_tag_w_property
HTMLWriter_single_tag_w_property(w, tag, prop, value) ==
    LET w1 == HTMLWriter_single_tag(w, tag) IN
    IF w1.err # "none" THEN w1 ELSE HTMLWriter_add_property(w1, prop, value)

\* The closure of add_properties: the text pushed for the pairs 1..k
RECURSIVE property_string(_, _)
property_string(p, k) ==
    IF k = 0 THEN <<>>
    ELSE property_string(p, k - 1)
           \o <<" ">> \o p[k][1] \o <<"=", "\"">> \o p[k][2] \o <<"\"">>

\* add_properties that retracts the last two characters of the buffer
HTMLWriter_add_properties_pop2(w, properties) ==
    [ w EXCEPT !.content =
          pop(pop(@)) \o property_string(properties, Len(properties)) \o <<">">> ]

\* HTMLWriter::add_properties
HTMLWriter_add_properties(w, properties) ==
    [ w EXCEPT !.content = pop(@) \o property_string(properties, Len(properties)) \o <<">">> ]

\* add_comment that ends the comment with a line feed
HTMLWriter_add_comment_feed(w, comment) ==
    [ w EXCEPT !.content = WriterCore_line_feed(w.core,
          @ \o <<"<", "!", "-", "-", " ">> \o comment \o <<" ", "-", "-", ">">>, 1) ]

\* HTMLWriter::add_comment
HTMLWriter_add_comment(w, comment) ==
    [ w EXCEPT !.content = @ \o <<"<", "!", "-", "-", " ">> \o comment \o <<" ", "-", "-", ">">> ]

\* HTMLWriter::clear
HTMLWriter_clear(w) ==
    [ w EXCEPT !.content = <<>>, !.core = WriterCore_clear(@, 4) ]

\* --------------------------------------------------------------- XMLWriter
\* XMLWriter::new
XMLWriter_new ==
    [ kind |-> "xml", content |-> <<>>, core |-> WriterCore_new(2), err |-> "none" ]

\* XMLWriter::open_tag
XMLWriter_open_tag(w, tag) ==
    IF ~assert_html_notation(tag) THEN panic(w, "InvalidNotation")
    ELSE [ w EXCEPT !.content = @ \o <<"<">> \o tag \o <<">">>,
                    !.core.block_stack = Append(@, tag) ]

\* XMLWriter::close_tag
XMLWriter_close_tag(w) ==
    IF Len(w.core.block_stack) = 0 THEN panic(w, "StackUnderflow")
    ELSE LET tag == w.core.block_stack[Len(w.core.block_stack)] IN
         [ w EXCEPT !.core.block_stack = pop(@),
                    !.content = @ \o <<"<", "/">> \o tag \o <<">">> ]

\* XMLWriter::single_tag
XMLWriter_single_tag(w, tag) ==
    IF ~assert_html_notation(tag) THEN panic(w, "InvalidNotation")
    ELSE [ w EXCEPT !.content = @ \o <<"<">> \o tag \o <<">">> ]

\* XMLWriter::add_property
XMLWriter_add_property(w, prop, value) ==
    IF ~assert_html_notation(prop) THEN panic(w, "InvalidNotation")
    ELSE [ w EXCEPT !.content =
               pop(@) \o <<" ">> \o prop \o <<"=", "\"">> \o value \o <<"\"", ">">> ]

\* XMLWriter::open_tag_w_property
XMLWriter_open_tag_w_property(w, tag, prop, value) ==
    IF ~assert_html_notation(tag) THEN panic(w, "InvalidNotation")
    ELSE LET w1 == XMLWriter_open_tag(w, tag) IN
         IF w1.err # "none" THEN w1 ELSE XMLWriter_add_property(w1, prop, value)

\* XMLWriter::single_tag_w_property
XMLWriter_single_tag_w_property(w, tag, prop, value) ==
    LET w1 == XMLWriter_single_tag(w, tag) IN
    IF w1.err # "none" THEN w1 ELSE XMLWriter_add_property(w1, prop, value)

\* XMLWriter::add_properties
XMLWriter_add_properties(w, properties) ==
    [ w EXCEPT !.content = pop(@) \o property_string(properties, Len(properties)) \o <<">">> ]

\* XMLWriter::add_comment
XMLWriter_add_comment(w, comment) ==
    [ w EXCEPT !.content = @ \o <<"<", "!", "-", "-", " ">> \o comment \o <<" ", "-", "-", ">">> ]

\* XMLWriter::clear
XMLWriter_clear(w) ==
    [ w EXCEPT !.content = <<>>, !.core = WriterCore_clear(@, 2) ]

\* --------------------------------------------------------------- JSONWriter
\* usize::to_string: the decimal digits of n, most significant first
DigitChars == <<"0", "1", "2", "3", "4", "5", "6", "7", "8", "9">>

RECURSIVE to_string(_)
to_string(n) ==
    IF n < 10 THEN << DigitChars[n + 1] >>
    ELSE to_string(n \div 10) \o << DigitChars[(n % 10) + 1] >>

\* String::ends_with(char)
ends_with(s, c) == Len(s) > 0 /\ s[Len(s)] = c

\* JSONWriter::new
JSONWriter_new ==
    [ kind |-> "json", content |-> <<>>, core |-> WriterCore_new(2),
      comment_cnt |-> 0, err |-> "none" ]

\* prepare_property_write without the is_empty test: a comma line on every
\* buffer that does not end with an opening brace
JSONWriter_prepare_property_write_comma(w) ==
    IF ends_with(w.content, "{")
    THEN LET r == WriterCore_line_feed_inc(w.core, w.content) IN
         [ w EXCEPT !.core = r.core, !.content = r.content ]
    ELSE [ w EXCEPT !.content = @ \o <<",", "\n">> \o w.core.indent ]

\* JSONWriter::prepare_property_write
JSONWriter_prepare_property_write(w) ==
    IF ends_with(w.content, "{")
    THEN LET r == WriterCore_line_feed_inc(w.core, w.content) IN
         [ w EXCEPT !.core = r.core, !.content = r.content ]
    ELSE IF Len(w.content) # 0
    THEN [ w EXCEPT !.content = @ \o <<",", "\n">> \o w.core.indent ]
    ELSE w

\* open_tag that writes the name and the brace of a named block on one line
JSONWriter_open_tag_inline(w, tag) ==
    LET w1 == JSONWriter_prepare_property_write(w) IN
    IF Len(tag) # 0
    THEN [ w1 EXCEPT !.content = @ \o <<"\"">> \o tag \o <<"\"", ":", " ", "{">> ]
    ELSE [ w1 EXCEPT !.content = @ \o <<"{">> ]

\* open_tag that records the block on the element stack as a tag-based writer does
JSONWriter_open_tag_push(w, tag) ==
    LET w1 == JSONWriter_prepare_property_write(w)
        w2 == [ w1 EXCEPT !.core.block_stack = Append(@, tag) ]
    IN
    IF Len(tag) # 0
    THEN [ w2 EXCEPT !.content =
               @ \o <<"\"">> \o tag \o <<"\"", ":", "\n">> \o w1.core.indent \o <<"{">> ]
    ELSE [ w2 EXCEPT !.content = @ \o <<"{">> ]

\* JSONWriter::open_tag
JSONWriter_open_tag(w, tag) ==
    LET w1 == JSONWriter_prepare_property_write(w) IN
    IF Len(tag) # 0
    THEN [ w1 EXCEPT !.content =
               @ \o <<"\"">> \o tag \o <<"\"", ":", "\n">> \o w1.core.indent \o <<"{">> ]
    ELSE [ w1 EXCEPT !.content = @ \o <<"{">> ]

\* close_tag that writes the brace without the line feed
JSONWriter_close_tag_noline(w) ==
    [ w EXCEPT !.content = @ \o <<"}">> ]

\* close_tag that fails on an empty element stack as a tag-based writer does
JSONWriter_close_tag_strict(w) ==
    IF Len(w.core.block_stack) = 0 THEN panic(w, "StackUnderflow")
    ELSE LET r == WriterCore_line_feed_dec(w.core, w.content) IN
         [ w EXCEPT !.core = r.core, !.content = r.content \o <<"}">> ]

\* JSONWriter::close_tag
JSONWriter_close_tag(w) ==
    LET r == WriterCore_line_feed_dec(w.core, w.content) IN
    [ w EXCEPT !.core = r.core, !.content = r.content \o <<"}">> ]

\* JSONWriter::single_tag
JSONWriter_single_tag(w, tag) == panic(w, "UnsupportedOperation")

\* JSONWriter::add_property
JSONWriter_add_property(w, name, value) ==
    LET w1 == JSONWriter_prepare_property_write(w) IN
    [ w1 EXCEPT !.content = @ \o <<"\"">> \o name \o <<"\"", ":", " ">> \o value ]

\* JSONWriter::open_tag_w_property
JSONWriter_open_tag_w_property(w, tag, prop, value) ==
    JSONWriter_add_property(JSONWriter_open_tag(w, tag), prop, value)

\* single_tag_w_property that writes the property before it calls single_tag
JSONWriter_single_tag_w_property_late(w, tag, prop, value) ==
    JSONWriter_single_tag(JSONWriter_add_property(w, prop, value), tag)

\* JSONWriter::single_tag_w_property
JSONWriter_single_tag_w_property(w, tag, prop, value) ==
    LET w1 == JSONWriter_single_tag(w, tag) IN
    IF w1.err # "none" THEN w1 ELSE JSONWriter_add_property(w1, prop, value)

\* The first k pairs of properties, written by add_property one after the other
RECURSIVE JSONWriter_for_each(_, _, _)
JSONWriter_for_each(w, properties, k) ==
    IF k = 0 THEN w
    ELSE JSONWriter_add_property(JSONWriter_for_each(w, properties, k - 1),
                                 properties[k][1], properties[k][2])

\* add_properties that writes the pairs last to first
JSONWriter_add_properties_rev(w, properties) ==
    JSONWriter_for_each(w, [ i \in 1..Len(properties) |->
                                 properties[Len(properties) + 1 - i] ],
                        Len(properties))

\* JSONWriter::add_properties
JSONWriter_add_properties(w, properties) ==
    JSONWriter_for_each(w, properties, Len(properties))

\* add_comment that builds the name before it increments the counter
JSONWriter_add_comment_post(w, comment) ==
    LET prop == <<"_", "c", "o", "m", "m", "e", "n", "t">> \o to_string(w.comment_cnt)
        value == <<"\"">> \o comment \o <<"\"">>
    IN  JSONWriter_add_property([ w EXCEPT !.comment_cnt = @ + 1 ], prop, value)

\* JSONWriter::add_comment
JSONWriter_add_comment(w, comment) ==
    LET w1 == [ w EXCEPT !.comment_cnt = @ + 1 ]
        prop == <<"_", "c", "o", "m", "m", "e", "n", "t">> \o to_string(w1.comment_cnt)
        value == <<"\"">> \o comment \o <<"\"">>
    IN  JSONWriter_add_property(w1, prop, value)

\* JSONWriter::clear
JSONWriter_clear(w) ==
    [ w EXCEPT !.core = WriterCore_clear(@, 2), !.content = <<>> ]

\* ------------------------------------------------- WriterCore of writer.rs
\* `for _i in 0..steps { self.indent.pop(); }`
RECURSIVE pop_steps(_, _)
pop_steps(s, steps) == IF steps = 0 THEN s ELSE pop_steps(pop(s), steps - 1)

\* WriterCore::dec_indent_step of writer.rs
writer_WriterCore_dec_indent_step(core) ==
    LET steps == IF core.indent_step_size > Len(core.indent)
                 THEN Len(core.indent)
                 ELSE core.indent_step_size
    IN  [ core EXCEPT !.indent = pop_steps(@, steps) ]

\* WriterCore::new of writer.rs: the buffer is a field of the core
writer_WriterCore_new(indent_step_size) ==
    [ content |-> <<>>, indent_step_size |-> indent_step_size,
      indent |-> <<>>, block_stack |-> <<>> ]

\* WriterCore::w_lf of writer.rs
writer_WriterCore_w_lf(core) ==
    [ core EXCEPT !.content = @ \o <<"\n">> \o core.indent ]

\* WriterCore::inc_indent_step of writer.rs
writer_WriterCore_inc_indent_step(core) ==
    [ core EXCEPT !.indent = @ \o repeat(" ", core.indent_step_size) ]

\* WriterCore::w_lf_inc of writer.rs
writer_WriterCore_w_lf_inc(core) ==
    writer_WriterCore_w_lf(writer_WriterCore_inc_indent_step(core))

\* WriterCore::w_lf_dec of writer.rs
writer_WriterCore_w_lf_dec(core) ==
    writer_WriterCore_w_lf(writer_WriterCore_dec_indent_step(core))

\* WriterCore::set_indent_step of writer.rs
writer_WriterCore_set_indent_step(core, indent_step) ==
    [ core EXCEPT !.indent = repeat(" ", indent_step * core.indent_step_size) ]

\* WriterCore::set_indent_step_size of writer.rs
writer_WriterCore_set_indent_step_size(core, indent_step_size) ==
    [ core EXCEPT !.indent_step_size = indent_step_size ]

\* WriterCore::clear of writer.rs: the step size is left as it is
writer_WriterCore_clear(core) ==
    [ writer_WriterCore_set_indent_step([ core EXCEPT !.content = <<>> ], 0)
        EXCEPT !.block_stack = <<>> ]

\* ---------------------------------------------------- XMLWriter of xml.rs
xml_XMLWriter_new ==
    [ kind |-> "xml", core |-> writer_WriterCore_new(2), err |-> "none" ]

xml_XMLWriter_w_open_element(h, tag) ==
    [ h EXCEPT !.core.content = @ \o <<"<">> \o tag \o <<">">>,
               !.core.block_stack = Append(@, tag) ]

\* block_stack.pop().unwrap() panics on the empty stack
xml_XMLWriter_w_close_element(h) ==
    IF Len(h.core.block_stack) = 0 THEN panic(h, "unwrap")
    ELSE LET tag == h.core.block_stack[Len(h.core.block_stack)] IN
         [ h EXCEPT !.core.block_stack = pop(@),
                    !.core.content = @ \o <<"<", "/">> \o tag \o <<">">> ]

xml_XMLWriter_w_single_element(h, tag) ==
    [ h EXCEPT !.core.content = @ \o <<"<">> \o tag \o <<">">> ]

xml_XMLWriter_w_property(h, name, value) ==
    [ h EXCEPT !.core.content =
          pop(@) \o <<" ">> \o name \o <<"=", "\"">> \o value \o <<"\"", ">">> ]

xml_XMLWriter_w_properties(h, properties) ==
    [ h EXCEPT !.core.content =
          pop(@) \o property_string(properties, Len(properties)) \o <<">">> ]

\* XMLWriter::clear of xml.rs: the core is cleared, then the step size set to 4
xml_XMLWriter_clear(h) ==
    [ h EXCEPT !.core = [ writer_WriterCore_clear(@) EXCEPT !.indent_step_size = 4 ] ]

\* -------------------------------------------------- JSONWriter of json.rs
json_JSONWriter_new ==
    [ kind |-> "json", core |-> writer_WriterCore_new(2), err |-> "none" ]

json_JSONWriter_prepare_property_write(h) ==
    IF ends_with(h.core.content, "{")
    THEN [ h EXCEPT !.core = writer_WriterCore_w_lf_inc(@) ]
    ELSE IF Len(h.core.content) > 0
    THEN [ h EXCEPT !.core.content = @ \o <<",", "\n">> \o h.core.indent ]
    ELSE h

json_JSONWriter_w_open_element(h, tag) ==
    LET h1 == json_JSONWriter_prepare_property_write(h) IN
    IF Len(tag) > 0
    THEN [ h1 EXCEPT !.core.content =
               @ \o <<"\"">> \o tag \o <<"\"", ":", "\n">> \o h1.core.indent \o <<"{">> ]
    ELSE [ h1 EXCEPT !.core.content = @ \o <<"{">> ]

json_JSONWriter_w_close_element(h) ==
    LET core == writer_WriterCore_w_lf_dec(h.core) IN
    [ h EXCEPT !.core = [ core EXCEPT !.content = @ \o <<"}">> ] ]

\* panic!("there is no single_element in the JSONWriter")
json_JSONWriter_w_single_element(h, tag) == panic(h, "UnsupportedOperation")

json_JSONWriter_w_property(h, name, value) ==
    LET h1 == json_JSONWriter_prepare_property_write(h) IN
    [ h1 EXCEPT !.core.content =
          @ \o <<"\"">> \o name \o <<"\"", ":", " ">> \o value ]

\* properties.p.iter().for_each(|x| self.w_property(&x.0, &x.1))
RECURSIVE json_JSONWriter_for_each(_, _, _)
json_JSONWriter_for_each(h, p, k) ==
    IF k = 0 THEN h
    ELSE json_JSONWriter_w_property(json_JSONWriter_for_each(h, p, k - 1),
                                    p[k][1], p[k][2])

json_JSONWriter_w_properties(h, properties) ==
    json_JSONWriter_for_each(h, properties, Len(properties))

\* JSONWriter::clear of json.rs: the core's clear and nothing more
json_JSONWriter_clear(h) ==
    [ h EXCEPT !.core = writer_WriterCore_clear(@) ]

\* ------------------------------------------------------ Writer of html.rs
\* The first writer: buffer, step size, indent and stack are its own fields
html_Writer_new ==
    [ kind |-> "html", content |-> <<>>, indent_step_size |-> 4,
      indent |-> <<>>, block_stack |-> <<>>, err |-> "none" ]

html_Writer_w_open_element(h, tag) ==
    [ h EXCEPT !.content = @ \o <<"<">> \o tag \o <<">">>,
               !.block_stack = Append(@, tag) ]

html_Writer_w_close_element(h) ==
    IF Len(h.block_stack) = 0 THEN panic(h, "unwrap")
    ELSE LET tag == h.block_stack[Len(h.block_stack)] IN
         [ h EXCEPT !.block_stack = pop(@),
                    !.content = @ \o <<"<", "/">> \o tag \o <<">">> ]

html_Writer_w_single_element(h, tag) ==
    [ h EXCEPT !.content = @ \o <<"<">> \o tag \o <<">">> ]

html_Writer_w_property(h, name, value) ==
    [ h EXCEPT !.content =
          pop(@) \o <<" ">> \o name \o <<"=", "\"">> \o value \o <<"\"", ">">> ]

html_Writer_w_properties(h, properties) ==
    [ h EXCEPT !.content =
          pop(@) \o property_string(properties, Len(properties)) \o <<">">> ]

html_Writer_w_lf(h) ==
    [ h EXCEPT !.content = @ \o <<"\n">> \o h.indent ]

html_Writer_inc_indent_step(h) ==
    [ h EXCEPT !.indent = @ \o repeat(" ", h.indent_step_size) ]

html_Writer_dec_indent_step(h) ==
    LET steps == IF h.indent_step_size > Len(h.indent)
                 THEN Len(h.indent)
                 ELSE h.indent_step_size
    IN  [ h EXCEPT !.indent = pop_steps(@, steps) ]

html_Writer_w_lf_inc(h) == html_Writer_w_lf(html_Writer_inc_indent_step(h))

html_Writer_w_lf_dec(h) == html_Writer_w_lf(html_Writer_dec_indent_step(h))

html_Writer_set_indent_step(h, indent_step) ==
    [ h EXCEPT !.indent = repeat(" ", indent_step * h.indent_step_size) ]

html_Writer_set_indent_step_size(h, indent_step_size) ==
    [ h EXCEPT !.indent_step_size = indent_step_size ]

html_Writer_clear(h) ==
    [ html_Writer_set_indent_step_size(
          html_Writer_set_indent_step([ h EXCEPT !.content = <<>> ], 0), 4)
        EXCEPT !.block_stack = <<>> ]

\* ------------------------------------------- trait MLLWriter of writer.rs
\* The operations of the historical trait, dispatched on the type of the
\* writer; the ones XMLWriter and JSONWriter delegate go to their core.
w_open_element(h, tag) ==
    IF h.kind = "html" THEN html_Writer_w_open_element(h, tag)
    ELSE IF h.kind = "xml" THEN xml_XMLWriter_w_open_element(h, tag)
    ELSE json_JSONWriter_w_open_element(h, tag)

w_close_element(h) ==
    IF h.kind = "html" THEN html_Writer_w_close_element(h)
    ELSE IF h.kind = "xml" THEN xml_XMLWriter_w_close_element(h)
    ELSE json_JSONWriter_w_close_element(h)

w_single_element(h, tag) ==
    IF h.kind = "html" THEN html_Writer_w_single_element(h, tag)
    ELSE IF h.kind = "xml" THEN xml_XMLWriter_w_single_element(h, tag)
    ELSE json_JSONWriter_w_single_element(h, tag)

w_property(h, name, value) ==
    IF h.kind = "html" THEN html_Writer_w_property(h, name, value)
    ELSE IF h.kind = "xml" THEN xml_XMLWriter_w_property(h, name, value)
    ELSE json_JSONWriter_w_property(h, name, value)

w_properties(h, properties) ==
    IF h.kind = "html" THEN html_Writer_w_properties(h, properties)
    ELSE IF h.kind = "xml" THEN xml_XMLWriter_w_properties(h, properties)
    ELSE json_JSONWriter_w_properties(h, properties)

w_lf(h) ==
    IF h.kind = "html" THEN html_Writer_w_lf(h)
    ELSE [ h EXCEPT !.core = writer_WriterCore_w_lf(@) ]

w_lf_inc(h) ==
    IF h.kind = "html" THEN html_Writer_w_lf_inc(h)
    ELSE [ h EXCEPT !.core = writer_WriterCore_w_lf_inc(@) ]

w_lf_dec(h) ==
    IF h.kind = "html" THEN html_Writer_w_lf_dec(h)
    ELSE [ h EXCEPT !.core = writer_WriterCore_w_lf_dec(@) ]

historical_inc_indent_step(h) ==
    IF h.kind = "html" THEN html_Writer_inc_indent_step(h)
    ELSE [ h EXCEPT !.core = writer_WriterCore_inc_indent_step(@) ]

historical_dec_indent_step(h) ==
    IF h.kind = "html" THEN html_Writer_dec_indent_step(h)
    ELSE [ h EXCEPT !.core = writer_WriterCore_dec_indent_step(@) ]

historical_set_indent_step(h, indent_step) ==
    IF h.kind = "html" THEN html_Writer_set_indent_step(h, indent_step)
    ELSE [ h EXCEPT !.core = writer_WriterCore_set_indent_step(@, indent_step) ]

historical_set_indent_step_size(h, indent_step_size) ==
    IF h.kind = "html" THEN html_Writer_set_indent_step_size(h, indent_step_size)
    ELSE [ h EXCEPT !.core = writer_WriterCore_set_indent_step_size(@, indent_step_size) ]

historical_clear(h) ==
    IF h.kind = "html" THEN html_Writer_clear(h)
    ELSE IF h.kind = "xml" THEN xml_XMLWriter_clear(h)
    ELSE json_JSONWriter_clear(h)

\* The new historical writer of a format
historical_new(kind) ==
    IF kind = "html" THEN html_Writer_new
    ELSE IF kind = "xml" THEN xml_XMLWriter_new
    ELSE json_JSONWriter_new

\* ---------------------------------------------------------- trait MLLWriter
\* The operations of the trait, dispatched on the type of the writer.
open_tag(w, tag) ==
    IF w.kind = "html" THEN HTMLWriter_open_tag(w, tag)
    ELSE IF w.kind = "xml" THEN XMLWriter_open_tag(w, tag)
    ELSE JSONWriter_open_tag(w, tag)

open_tag_w_property(w, tag, prop, value) ==
    IF w.kind = "html" THEN HTMLWriter_open_tag_w_property(w, tag, prop, value)
    ELSE IF w.kind = "xml" THEN XMLWriter_open_tag_w_property(w, tag, prop, value)
    ELSE JSONWriter_open_tag_w_property(w, tag, prop, value)

close_tag(w) ==
    IF w.kind = "html" THEN HTMLWriter_close_tag(w)
    ELSE IF w.kind = "xml" THEN XMLWriter_close_tag(w)
    ELSE JSONWriter_close_tag(w)

single_tag(w, tag) ==
    IF w.kind = "html" THEN HTMLWriter_single_tag(w, tag)
    ELSE IF w.kind = "xml" THEN XMLWriter_single_tag(w, tag)
    ELSE JSONWriter_single_tag(w, tag)

single_tag_w_property(w, tag, prop, value) ==
    IF w.kind = "html" THEN HTMLWriter_single_tag_w_property(w, tag, prop, value)
    ELSE IF w.kind = "xml" THEN XMLWriter_single_tag_w_property(w, tag, prop, value)
    ELSE JSONWriter_single_tag_w_property(w, tag, prop, value)

add_property(w, name, value) ==
    IF w.kind = "html" THEN HTMLWriter_add_property(w, name, value)
    ELSE IF w.kind = "xml" THEN XMLWriter_add_property(w, name, value)
    ELSE JSONWriter_add_property(w, name, value)

add_properties(w, properties) ==
    IF w.kind = "html" THEN HTMLWriter_add_properties(w, properties)
    ELSE IF w.kind = "xml" THEN XMLWriter_add_properties(w, properties)
    ELSE JSONWriter_add_properties(w, properties)

add_comment(w, comment) ==
    IF w.kind = "html" THEN HTMLWriter_add_comment(w, comment)
    ELSE IF w.kind = "xml" THEN XMLWriter_add_comment(w, comment)
    ELSE JSONWriter_add_comment(w, comment)

clear(w) ==
    IF w.kind = "html" THEN HTMLWriter_clear(w)
    ELSE IF w.kind = "xml" THEN XMLWriter_clear(w)
    ELSE JSONWriter_clear(w)

\* line_feed .. set_indent_step_size hand the call to the core, in every writer
line_feed(w, n) ==
    [ w EXCEPT !.content = WriterCore_line_feed(w.core, w.content, n) ]

line_feed_inc(w) ==
    LET r == WriterCore_line_feed_inc(w.core, w.content) IN
    [ w EXCEPT !.core = r.core, !.content = r.content ]

line_feed_dec(w) ==
    LET r == WriterCore_line_feed_dec(w.core, w.content) IN
    [ w EXCEPT !.core = r.core, !.content = r.content ]

inc_indent_step(w) == [ w EXCEPT !.core = WriterCore_inc_indent_step(@) ]

dec_indent_step(w) == [ w EXCEPT !.core = WriterCore_dec_indent_step(@) ]

set_indent_step(w, indent_step) ==
    [ w EXCEPT !.core = WriterCore_set_indent_step(@, indent_step) ]

set_indent_step_size(w, indent_step_size) ==
    [ w EXCEPT !.core = WriterCore_set_indent_step_size(@, indent_step_size) ]

\* ------------------------------------------------------------------- state
VARIABLES
    wr,       \* the writer: kind, content, core (indent_step_size, indent, block_stack), err
    op,       \* the last call made on the writer
    calls,    \* the calls made on the writer so far
    opens,    \* open_tag calls that returned since construction or the last clear()
    closes,   \* close_tag calls that returned since construction or the last clear()
    comments, \* add_comment calls that returned since construction
    old       \* the historical writer of the same format, called along in SpecHist

vars == <<wr, op, calls, opens, closes, comments, old>>

\* A call: its name and its arguments (the ones it does not take are empty)
Call(name, tag, prop, value, properties, n) ==
    [ name |-> name, tag |-> tag, prop |-> prop, value |-> value,
      properties |-> properties, n |-> n ]

NoCall == Call("new", <<>>, <<>>, <<>>, <<>>, 0)

\* One call: the writer has not panicked, the call is made and recorded
Do(call, w1, o, c) ==
    /\ wr.err = "none"
    /\ calls < MaxCalls
    /\ wr' = w1
    /\ calls' = calls + 1
    /\ op' = call
    /\ opens' = o
    /\ closes' = c
    /\ comments' = IF call.name = "add_comment" /\ w1.err = "none"
                   THEN comments + 1 ELSE comments
    /\ UNCHANGED old

Init ==
    /\ wr \in { HTMLWriter_new, XMLWriter_new }
    /\ op = NoCall
    /\ calls = 0
    /\ opens = 0
    /\ closes = 0
    /\ comments = 0
    /\ old = historical_new(wr.kind)

OpenTag ==
    \E tag \in Tags :
        LET w1 == open_tag(wr, tag) IN
        Do(Call("open_tag", tag, <<>>, <<>>, <<>>, 0), w1,
           IF w1.err = "none" THEN opens + 1 ELSE opens, closes)

OpenTagWProperty ==
    \E tag \in Names, p \in Pairs :
        LET w1 == open_tag_w_property(wr, tag, p[1], p[2]) IN
        Do(Call("open_tag_w_property", tag, p[1], p[2], <<>>, 0), w1,
           IF open_tag(wr, tag).err = "none" THEN opens + 1 ELSE opens, closes)

CloseTag ==
    LET w1 == close_tag(wr) IN
    Do(Call("close_tag", <<>>, <<>>, <<>>, <<>>, 0), w1,
       opens, IF w1.err = "none" THEN closes + 1 ELSE closes)

SingleTag ==
    \E tag \in Tags :
        Do(Call("single_tag", tag, <<>>, <<>>, <<>>, 0), single_tag(wr, tag),
           opens, closes)

SingleTagWProperty ==
    \E tag \in Names, p \in Pairs :
        Do(Call("single_tag_w_property", tag, p[1], p[2], <<>>, 0),
           single_tag_w_property(wr, tag, p[1], p[2]), opens, closes)

AddProperty ==
    \E name \in Names, value \in Values :
        Do(Call("add_property", <<>>, name, value, <<>>, 0),
           add_property(wr, name, value), opens, closes)

AddProperties ==
    \E properties \in Properties :
        Do(Call("add_properties", <<>>, <<>>, <<>>, properties, 0),
           add_properties(wr, properties), opens, closes)

AddComment ==
    \E comment \in Comments :
        Do(Call("add_comment", <<>>, <<>>, comment, <<>>, 0),
           add_comment(wr, comment), opens, closes)

LineFeed ==
    \E n \in Feeds :
        Do(Call("line_feed", <<>>, <<>>, <<>>, <<>>, n), line_feed(wr, n), opens, closes)

LineFeedInc ==
    Do(Call("line_feed_inc", <<>>, <<>>, <<>>, <<>>, 0), line_feed_inc(wr), opens, closes)

LineFeedDec ==
    Do(Call("line_feed_dec", <<>>, <<>>, <<>>, <<>>, 0), line_feed_dec(wr), opens, closes)

IncIndentStep ==
    Do(Call("inc_indent_step", <<>>, <<>>, <<>>, <<>>, 0), inc_indent_step(wr), opens, closes)

DecIndentStep ==
    Do(Call("dec_indent_step", <<>>, <<>>, <<>>, <<>>, 0), dec_indent_step(wr), opens, closes)

SetIndentStep ==
    \E n \in Levels :
        Do(Call("set_indent_step", <<>>, <<>>, <<>>, <<>>, n),
           set_indent_step(wr, n), opens, closes)

SetIndentStepSize ==
    \E n \in StepSizes :
        Do(Call("set_indent_step_size", <<>>, <<>>, <<>>, <<>>, n),
           set_indent_step_size(wr, n), opens, closes)

Clear ==
    Do(Call("clear", <<>>, <<>>, <<>>, <<>>, 0), clear(wr), 0, 0)

Next ==
    \/ OpenTag
    \/ OpenTagWProperty
    \/ CloseTag
    \/ SingleTag
    \/ SingleTagWProperty
    \/ AddProperty
    \/ AddProperties
    \/ AddComment
    \/ LineFeed
    \/ LineFeedInc
    \/ LineFeedDec
    \/ IncIndentStep
    \/ DecIndentStep
    \/ SetIndentStep
    \/ SetIndentStepSize
    \/ Clear

Spec == Init /\ [][Next]_vars

\* The same calls, made on a JSONWriter
InitJson ==
    /\ wr = JSONWriter_new
    /\ op = NoCall
    /\ calls = 0
    /\ opens = 0
    /\ closes = 0
    /\ comments = 0
    /\ old = historical_new(wr.kind)

SpecJson == InitJson /\ [][Next]_vars

\* A JSONWriter that writes a document: blocks, entries, closing braces.
\* The block names (the empty one opens an anonymous block), the entry
\* names and the raw values the caller passes.
DocTags == { <<>>, <<"T">> }
DocNames == { <<"a">>, <<"b">> }
DocValues == { <<"1">>, <<"{">> }

DoDoc(call, w1, o, c) ==
    /\ wr.err = "none"
    /\ calls < MaxDocCalls
    /\ wr' = w1
    /\ calls' = calls + 1
    /\ op' = call
    /\ opens' = o
    /\ closes' = c
    /\ UNCHANGED <<comments, old>>

DocOpenTag ==
    \E tag \in DocTags :
        DoDoc(Call("open_tag", tag, <<>>, <<>>, <<>>, 0), open_tag(wr, tag),
              opens + 1, closes)

DocAddProperty ==
    \E name \in DocNames, value \in DocValues :
        DoDoc(Call("add_property", <<>>, name, value, <<>>, 0),
              add_property(wr, name, value), opens, closes)

DocCloseTag ==
    DoDoc(Call("close_tag", <<>>, <<>>, <<>>, <<>>, 0), close_tag(wr),
          opens, closes + 1)

NextDoc ==
    \/ DocOpenTag
    \/ DocAddProperty
    \/ DocCloseTag

SpecJsonDoc == InitJson /\ [][NextDoc]_vars

\* A writer of any of the three types whose caller steers the indentation:
\* the levels and the widths it passes, width 0 among them
IndentLevels == { 0, 1, 3 }
IndentSizes == { 0, 1, 3 }

InitAny ==
    /\ wr \in { HTMLWriter_new, XMLWriter_new, JSONWriter_new }
    /\ op = NoCall
    /\ calls = 0
    /\ opens = 0
    /\ closes = 0
    /\ comments = 0
    /\ old = historical_new(wr.kind)

SetIndentStepTo ==
    \E n \in IndentLevels :
        Do(Call("set_indent_step", <<>>, <<>>, <<>>, <<>>, n),
           set_indent_step(wr, n), opens, closes)

SetIndentStepSizeTo ==
    \E n \in IndentSizes :
        Do(Call("set_indent_step_size", <<>>, <<>>, <<>>, <<>>, n),
           set_indent_step_size(wr, n), opens, closes)

NextIndent ==
    \/ OpenTag
    \/ LineFeed
    \/ LineFeedInc
    \/ LineFeedDec
    \/ IncIndentStep
    \/ DecIndentStep
    \/ SetIndentStepTo
    \/ SetIndentStepSizeTo
    \/ Clear

SpecIndent == InitAny /\ [][NextIndent]_vars

\* A writer of any of the three types and every call of the trait
SpecAll == InitAny /\ [][Next]_vars

\* ------------------------------------------- both generations side by side
\* A lib.rs writer and the historical writer of its format receive the same
\* calls, as long as neither has panicked.  The arguments the callers pass:
HistTags == { <<"a">>, <<>> }
HistPairs == { <<(<<"a">>), (<<"x">>)>> }
HistProperties == { << <<(<<"a">>), (<<"x">>)>>, <<(<<"1">>), (<<"x">>)>> >> }
HistLevels == { 2 }
HistSizes == { 3 }

DoBoth(call, w1, h1) ==
    /\ wr.err = "none"
    /\ old.err = "none"
    /\ calls < MaxCalls
    /\ wr' = w1
    /\ old' = h1
    /\ calls' = calls + 1
    /\ op' = call
    /\ UNCHANGED <<opens, closes, comments>>

BothOpen ==
    \E tag \in HistTags :
        DoBoth(Call("open_tag", tag, <<>>, <<>>, <<>>, 0),
               open_tag(wr, tag), w_open_element(old, tag))

BothClose ==
    DoBoth(Call("close_tag", <<>>, <<>>, <<>>, <<>>, 0),
           close_tag(wr), w_close_element(old))

BothSingle ==
    \E tag \in HistTags :
        DoBoth(Call("single_tag", tag, <<>>, <<>>, <<>>, 0),
               single_tag(wr, tag), w_single_element(old, tag))

BothProperty ==
    \E p \in HistPairs :
        DoBoth(Call("add_property", <<>>, p[1], p[2], <<>>, 0),
               add_property(wr, p[1], p[2]), w_property(old, p[1], p[2]))

BothProperties ==
    \E properties \in HistProperties :
        DoBoth(Call("add_properties", <<>>, <<>>, <<>>, properties, 0),
               add_properties(wr, properties), w_properties(old, properties))

BothLineFeed ==
    DoBoth(Call("line_feed", <<>>, <<>>, <<>>, <<>>, 1), line_feed(wr, 1), w_lf(old))

BothLineFeedInc ==
    DoBoth(Call("line_feed_inc", <<>>, <<>>, <<>>, <<>>, 0),
           line_feed_inc(wr), w_lf_inc(old))

BothLineFeedDec ==
    DoBoth(Call("line_feed_dec", <<>>, <<>>, <<>>, <<>>, 0),
           line_feed_dec(wr), w_lf_dec(old))

BothIncIndentStep ==
    DoBoth(Call("inc_indent_step", <<>>, <<>>, <<>>, <<>>, 0),
           inc_indent_step(wr), historical_inc_indent_step(old))

BothDecIndentStep ==
    DoBoth(Call("dec_indent_step", <<>>, <<>>, <<>>, <<>>, 0),
           dec_indent_step(wr), historical_dec_indent_step(old))

BothSetIndentStep ==
    \E n \in HistLevels :
        DoBoth(Call("set_indent_step", <<>>, <<>>, <<>>, <<>>, n),
               set_indent_step(wr, n), historical_set_indent_step(old, n))

BothSetIndentStepSize ==
    \E n \in HistSizes :
        DoBoth(Call("set_indent_step_size", <<>>, <<>>, <<>>, <<>>, n),
               set_indent_step_size(wr, n), historical_set_indent_step_size(old, n))

BothClear ==
    DoBoth(Call("clear", <<>>, <<>>, <<>>, <<>>, 0), clear(wr), historical_clear(old))

NextBoth ==
    \/ BothOpen
    \/ BothClose
    \/ BothSingle
    \/ BothProperty
    \/ BothProperties
    \/ BothLineFeed
    \/ BothLineFeedInc
    \/ BothLineFeedDec
    \/ BothIncIndentStep
    \/ BothDecIndentStep
    \/ BothSetIndentStep
    \/ BothSetIndentStepSize
    \/ BothClear

SpecHist == InitAny /\ [][NextBoth]_vars

\* ============================================================== properties
\* The writer is an HTMLWriter or an XMLWriter
TagBased == wr.kind \in { "html", "xml" }
\* No call on the writer has panicked
Ok == wr.err = "none"
stack == wr.core.block_stack

\* The names the notation rule is tried on: every text of up to MaxNameLen
\* characters over a lowercase letter, a digit, an uppercase letter, a dash
\* and a space.
NameChars == { "a", "1", "A", "-", " " }
AllNames == UNION { [1..n -> NameChars] : n \in 0..MaxNameLen }
\* A valid name: not empty, made of ASCII digits and lowercase ASCII letters
ValidName(t) == Len(t) > 0 /\ \A i \in 1..Len(t) : t[i] \in Lower \cup Digit
\* A name with a character that is not ASCII alphanumeric, or with an
\* uppercase letter
BadName(t) ==
    \E i \in 1..Len(t) : t[i] \notin Lower \cup Upper \cup Digit \/ t[i] \in Upper
\* The valid names of up to MaxNameLen characters over a letter and a digit
ValidNames == UNION { [1..n -> { "a", "1" }] : n \in 1..MaxNameLen }
\* The valid names the operations are tried with: all of ValidNames on a new
\* writer, three of them in the later states
TriedNames ==
    IF calls = 0 THEN ValidNames ELSE { <<"a">>, <<"1">>, <<"a", "1">> }
\* Names the operations are tried with in every state: valid ones, one with
\* an uppercase letter first or last, one with a dash, one with a space
ProbeNames ==
    { <<"a">>, <<"1">>, <<"a", "1">>, <<"A">>, <<"a", "A">>, <<"-">>,
      <<"a", "-">>, <<" ", "a">> }

\* The Property lists of up to MaxProps pairs with valid names
ValidPairs == { <<(<<"a">>), (<<"x">>)>>, <<(<<"1">>), (<<>>)>>, <<(<<"a">>), (<<"y", ">">>)>> }
ValidProperties == UNION { [1..n -> ValidPairs] : n \in 1..MaxProps }

\* <t> and </t>
OpenText(t) == <<"<">> \o t \o <<">">>
CloseText(t) == <<"<", "/">> \o t \o <<">">>

\* The writer after add_property was called for the pairs 1..k of p, in order
RECURSIVE add_each(_, _, _)
add_each(w, p, k) ==
    IF k = 0 THEN w
    ELSE LET w0 == add_each(w, p, k - 1) IN
         IF w0.err # "none" THEN w0 ELSE add_property(w0, p[k][1], p[k][2])

\* The writer after k calls of close_tag
RECURSIVE close_each(_, _)
close_each(w, k) ==
    IF k = 0 THEN w
    ELSE LET w0 == close_each(w, k - 1) IN
         IF w0.err # "none" THEN w0 ELSE close_tag(w0)

\* C1: on a tag-based writer, in every state and for every valid tag name t,
\* open_tag(t) followed by close_tag() appends exactly <t></t> to the content
\* and leaves the element stack as it was.
Thm_C1 ==
    (TagBased /\ Ok) =>
        \A t \in TriedNames :
            LET w1 == open_tag(wr, t)
                w2 == close_tag(w1)
            IN  /\ w1.err = "none"
                /\ w2.err = "none"
                /\ w2.content = wr.content \o OpenText(t) \o CloseText(t)
                /\ w2.core.block_stack = stack

\* open_tag("a"), open_tag("a"), close_tag(): the second pair is closed inside
\* the first, which is still open
Wit_C1 ==
    /\ TagBased /\ Ok
    /\ op.name = "close_tag"
    /\ wr.content = <<"<", "a", ">", "<", "a", ">", "<", "/", "a", ">">>
    /\ stack = << <<"a">> >>

\* C2: on a tag-based writer that has not panicked, the depth of the element
\* stack is the number of open_tag calls minus the number of close_tag calls
\* made since construction or the last clear(); and single_tag, add_property,
\* add_properties, add_comment and the indentation and line-feed operations
\* leave the depth as it is.
Thm_C2 ==
    (TagBased /\ Ok) =>
        /\ Len(stack) = opens - closes
        /\ \A t \in Names :
               LET w1 == single_tag(wr, t) IN
               w1.err = "none" => Len(w1.core.block_stack) = Len(stack)
        /\ \A t \in Names, v \in Values :
               LET w1 == add_property(wr, t, v) IN
               w1.err = "none" => Len(w1.core.block_stack) = Len(stack)
        /\ \A p \in Properties :
               Len(add_properties(wr, p).core.block_stack) = Len(stack)
        /\ \A c \in Comments :
               Len(add_comment(wr, c).core.block_stack) = Len(stack)
        /\ \A n \in Feeds : Len(line_feed(wr, n).core.block_stack) = Len(stack)
        /\ \A n \in Levels : Len(set_indent_step(wr, n).core.block_stack) = Len(stack)
        /\ \A n \in StepSizes :
               Len(set_indent_step_size(wr, n).core.block_stack) = Len(stack)
        /\ Len(line_feed_inc(wr).core.block_stack) = Len(stack)
        /\ Len(line_feed_dec(wr).core.block_stack) = Len(stack)
        /\ Len(inc_indent_step(wr).core.block_stack) = Len(stack)
        /\ Len(dec_indent_step(wr).core.block_stack) = Len(stack)

\* Two opens and one close: depth 1
Wit_C2 ==
    /\ TagBased /\ Ok
    /\ opens = 2 /\ closes = 1
    /\ Len(stack) = 1

\* C3: on a tag-based writer whose element stack is empty, close_tag() panics
\* (StackUnderflow) and leaves the writer, the content included, as it was.
Thm_C3 ==
    (TagBased /\ Ok /\ Len(stack) = 0) =>
        close_tag(wr) = panic(wr, "StackUnderflow")

\* The panic of a close_tag() made after as many closes as opens
Wit_C3 ==
    /\ TagBased
    /\ op.name = "close_tag"
    /\ wr.err = "StackUnderflow"
    /\ opens = 1 /\ closes = 1
    /\ Len(wr.content) > 0

\* The closing tags of the last k tags of a stack s, the last one first
RECURSIVE ClosingText(_, _)
ClosingText(s, k) ==
    IF k = 0 THEN <<>>
    ELSE CloseText(s[Len(s)]) \o ClosingText(SubSeq(s, 1, Len(s) - 1), k - 1)

\* C4: on a tag-based writer, open_tag(t) puts t last on the element stack,
\* and k successive close_tag() calls append the closing tags of the last k
\* elements of the stack, the most recently opened first, and take exactly
\* these off the stack.
Thm_C4 ==
    (TagBased /\ Ok) =>
        /\ \A t \in TriedNames : open_tag(wr, t).core.block_stack = Append(stack, t)
        /\ \A k \in 0..Len(stack) :
               LET w1 == close_each(wr, k) IN
               /\ w1.err = "none"
               /\ w1.content = wr.content \o ClosingText(stack, k)
               /\ w1.core.block_stack = SubSeq(stack, 1, Len(stack) - k)

\* open_tag("a"), open_tag("1"), close_tag(): </1> is written, a stays open
Wit_C4 ==
    /\ TagBased /\ Ok
    /\ op.name = "close_tag"
    /\ wr.content = <<"<", "a", ">", "<", "1", ">", "<", "/", "1", ">">>
    /\ stack = << <<"a">> >>

\* What C5 says of the calls with the name t on the writer w
NotationRule(w, t) ==
    /\ BadName(t) =>
           /\ open_tag(w, t) = panic(w, "InvalidNotation")
           /\ single_tag(w, t) = panic(w, "InvalidNotation")
           /\ \A v \in Values : add_property(w, t, v) = panic(w, "InvalidNotation")
    /\ ValidName(t) =>
           /\ open_tag(w, t).err = "none"
           /\ single_tag(w, t).err = "none"
           /\ \A v \in Values : add_property(w, t, v).err = "none"

\* C5: on a tag-based writer, open_tag, single_tag and add_property panic
\* (InvalidNotation) with the writer left as it was when the name has a
\* character that is not ASCII alphanumeric or an uppercase letter, and
\* succeed for every non-empty name of ASCII digits and lowercase letters:
\* for every name of AllNames on a new writer, and for the names of
\* ProbeNames in every state.
Thm_C5 ==
    /\ (TagBased /\ calls = 0) => \A t \in AllNames : NotationRule(wr, t)
    /\ (TagBased /\ Ok) => \A t \in ProbeNames : NotationRule(wr, t)

\* add_property("A", "x") after a tag was written: the panic, and the tag
\* still closed by its delimiter
Wit_C5 ==
    /\ TagBased
    /\ op.name = "add_property" /\ op.prop = <<"A">>
    /\ wr.err = "InvalidNotation"
    /\ wr.content = <<"<", "a", ">">>

\* C6 (as claimed): on a tag-based writer, open_tag("") and single_tag("")
\* panic (InvalidNotation): <> is not written and the empty name is not
\* pushed on the element stack.
Cex_C6 ==
    (TagBased /\ op.name \in { "open_tag", "single_tag" } /\ op.tag = <<>>) =>
        wr.err = "InvalidNotation"

\* C7: on a tag-based writer, single_tag(t) with a valid tag appends exactly
\* <t> and leaves the core, the element stack included, as it was; a
\* close_tag() after it panics (StackUnderflow) when no element was open
\* before, and otherwise closes the element that was open before.
Thm_C7 ==
    (TagBased /\ Ok) =>
        \A t \in TriedNames :
            LET w1 == single_tag(wr, t)
                w2 == close_tag(w1)
            IN  /\ w1.err = "none"
                /\ w1.content = wr.content \o OpenText(t)
                /\ w1.core = wr.core
                /\ Len(stack) = 0 => w2 = panic(w1, "StackUnderflow")
                /\ Len(stack) > 0 =>
                       /\ w2.err = "none"
                       /\ w2.content = w1.content \o CloseText(stack[Len(stack)])

\* open_tag("a"), single_tag("1"), close_tag(): a is closed, not 1
Wit_C7 ==
    /\ TagBased /\ Ok
    /\ op.name = "close_tag"
    /\ wr.content = <<"<", "a", ">", "<", "1", ">", "<", "/", "a", ">">>
    /\ stack = <<>>

\* The attributes of a Property list: each pair as one space, name="value"
RECURSIVE Attributes(_)
Attributes(p) ==
    IF Len(p) = 0 THEN <<>>
    ELSE <<" ">> \o Head(p)[1] \o <<"=", "\"">> \o Head(p)[2] \o <<"\"">>
           \o Attributes(Tail(p))

\* C8: on a tag-based writer, right after open_tag(t) or single_tag(t) the
\* content ends in <t>, and k >= 1 add_property calls with valid names turn
\* this <t> into <t n1="v1" ... nk="vk">, the attributes in call order.
Thm_C8 ==
    (TagBased /\ Ok /\ op.name \in { "open_tag", "single_tag" }) =>
        LET t    == op.tag
            base == SubSeq(wr.content, 1, Len(wr.content) - Len(t) - 2)
        IN  /\ wr.content = base \o OpenText(t)
            /\ \A p \in ValidProperties :
                   LET w1 == add_each(wr, p, Len(p)) IN
                   /\ w1.err = "none"
                   /\ w1.content = base \o <<"<">> \o t \o Attributes(p) \o <<">">>
                   /\ w1.core = wr.core

\* single_tag("a"), add_property("a", "x"), add_property("1", "x")
Wit_C8 ==
    /\ TagBased /\ Ok
    /\ op.name = "add_property"
    /\ wr.content = <<"<", "a", " ", "a", "=", "\"", "x", "\"",
                      " ", "1", "=", "\"", "x", "\"", ">">>

\* C9 (as claimed): on a tag-based writer, for every Property list,
\* add_properties(list) leaves the content that the add_property calls for
\* its pairs, made in order, leave.
Cex_C9 ==
    (TagBased /\ Ok) =>
        \A p \in Properties :
            add_properties(wr, p).content = add_each(wr, p, Len(p)).content

\* C10 (as claimed): on a tag-based writer, add_properties panics
\* (InvalidNotation) when a name of the list violates the notation rule.
Cex_C10 ==
    (TagBased /\ op.name = "add_properties"
        /\ \E i \in 1..Len(op.properties) : BadName(op.properties[i][1])) =>
        wr.err = "InvalidNotation"

\* ------------------------------------------------------------ JSONWriter
Json == wr.kind = "json"
Quote == <<"\"">>
NewLine == <<"\n">>

\* The separator the claim names for a buffer and an indent: nothing on the
\* empty buffer, a newline and the indent one step deeper after an opening
\* brace, a comma, a newline and the indent after anything else.
Separator(w) ==
    IF Len(w.content) = 0 THEN <<>>
    ELSE IF w.content[Len(w.content)] = "{"
    THEN NewLine \o w.core.indent \o repeat(" ", w.core.indent_step_size)
    ELSE <<",">> \o NewLine \o w.core.indent
\* The indent after that separator: one step deeper after an opening brace
SeparatorIndent(w) ==
    IF Len(w.content) # 0 /\ w.content[Len(w.content)] = "{"
    THEN w.core.indent \o repeat(" ", w.core.indent_step_size)
    ELSE w.core.indent

\* C11: before a JSONWriter writes an entry (add_property) or opens a block
\* (open_tag) it writes a separator chosen by the end of the buffer alone:
\* nothing when the buffer is empty; a newline and the indent raised by one
\* step when the buffer ends with an opening brace; a comma, a newline and
\* the unchanged indent otherwise.  The entry or the block follows it.
Thm_C11 ==
    (Json /\ Ok) =>
        /\ \A name \in Names, value \in Values :
              LET w1 == add_property(wr, name, value) IN
              /\ w1.content = wr.content \o Separator(wr)
                                \o Quote \o name \o Quote \o <<":", " ">> \o value
              /\ w1.core.indent = SeparatorIndent(wr)
              /\ w1.err = "none"
        /\ \A tag \in Tags :
              LET w1 == open_tag(wr, tag) IN
              /\ w1.content = wr.content \o Separator(wr)
                    \o (IF tag = <<>> THEN <<"{">>
                        ELSE Quote \o tag \o Quote \o <<":">> \o NewLine
                              \o SeparatorIndent(wr) \o <<"{">>)
              /\ w1.core.indent = SeparatorIndent(wr)
              /\ w1.err = "none"

\* The three cases in one run: open_tag("") on the empty buffer wrote the
\* brace alone, the first entry followed the brace one step deeper, the
\* second entry followed a comma
Wit_C11 ==
    /\ Json /\ Ok
    /\ calls = 3
    /\ op.name = "add_property"
    /\ wr.content = <<"{", "\n", " ", " ", "\"", "a", "\"", ":", " ", "x",
                      ",", "\n", " ", " ", "\"", "1", "\"", ":", " ", "x">>
    /\ wr.core.indent = <<" ", " ">>

\* The entries the document claims are tried on: a name and a raw JSON value
JsonValues == { <<"1">>, <<"\"", "x", "\"">> }
Entries == DocNames \X JsonValues
EntryLists == UNION { [1..n -> Entries] : n \in 1..MaxProps }
Fresh == Json /\ Ok /\ calls = 0
\* One entry, as it stands in the document
Entry(name, value) == Quote \o name \o Quote \o <<":", " ">> \o value

\* The first k entries of a list, each on its own line after ind, separated
\* by a comma at the end of the line before
RECURSIVE EntryLines(_, _, _)
EntryLines(entries, k, ind) ==
    IF k = 0 THEN <<>>
    ELSE EntryLines(entries, k - 1, ind)
            \o (IF k > 1 THEN <<",">> ELSE <<>>)
            \o NewLine \o ind \o Entry(entries[k][1], entries[k][2])

\* add_property for the first k entries of a list, one call after the other
RECURSIVE add_entries(_, _, _)
add_entries(w, entries, k) ==
    IF k = 0 THEN w
    ELSE add_property(add_entries(w, entries, k - 1), entries[k][1], entries[k][2])

\* C12: on a fresh JSONWriter, open_tag(""), then one add_property call per
\* entry of a list of k >= 1 entries, then close_tag() leave in the buffer an
\* opening brace, the entries each on its own line behind two spaces and
\* separated by a comma at the end of the line, and the closing brace on a
\* line of its own without indent.
Thm_C12 ==
    Fresh =>
        \A entries \in EntryLists :
            LET w1 == close_tag(add_entries(open_tag(wr, <<>>), entries, Len(entries))) IN
            /\ w1.content = <<"{">> \o EntryLines(entries, Len(entries), <<" ", " ">>)
                               \o NewLine \o <<"}">>
            /\ w1.core.indent = <<>>
            /\ w1.err = "none"

\* The document {"a": 1, "b": 1} has been written by four calls
Wit_C12 ==
    /\ Json /\ Ok
    /\ calls = 4
    /\ op.name = "close_tag"
    /\ wr.content = <<"{", "\n", " ", " ", "\"", "a", "\"", ":", " ", "1", ",",
                      "\n", " ", " ", "\"", "b", "\"", ":", " ", "1",
                      "\n", "}">>

\* C13: on a fresh JSONWriter, open_tag(""), add_property(p, v), open_tag(T)
\* with T not empty, add_property(q, w), close_tag(), close_tag() leave the
\* text
\*     {
\*       "p": v,
\*       "T":
\*       {
\*         "q": w
\*       }
\*     }
\* in the buffer: the name and both braces of the nested block at the indent
\* of the entries of its parent, its entries one step deeper.
Thm_C13 ==
    Fresh =>
        \A e1 \in Entries, e2 \in Entries, T \in Names \cup (DocTags \ { <<>> }) :
            LET w1 == add_property(open_tag(wr, <<>>), e1[1], e1[2])
                w2 == add_property(open_tag(w1, T), e2[1], e2[2])
                w3 == close_tag(close_tag(w2))
            IN  /\ w3.content =
                       <<"{">> \o NewLine
                    \o <<" ", " ">> \o Entry(e1[1], e1[2]) \o <<",">> \o NewLine
                    \o <<" ", " ">> \o Quote \o T \o Quote \o <<":">> \o NewLine
                    \o <<" ", " ">> \o <<"{">> \o NewLine
                    \o <<" ", " ", " ", " ">> \o Entry(e2[1], e2[2]) \o NewLine
                    \o <<" ", " ">> \o <<"}">> \o NewLine
                    \o <<"}">>
                /\ w3.core.indent = <<>>
                /\ w3.err = "none"

\* The document with the nested block T has been written by six calls
Wit_C13 ==
    /\ Json /\ Ok
    /\ calls = 6
    /\ op.name = "close_tag"
    /\ wr.content = <<"{", "\n",
                      " ", " ", "\"", "a", "\"", ":", " ", "1", ",", "\n",
                      " ", " ", "\"", "T", "\"", ":", "\n",
                      " ", " ", "{", "\n",
                      " ", " ", " ", " ", "\"", "b", "\"", ":", " ", "1", "\n",
                      " ", " ", "}", "\n",
                      "}">>

\* The first k pairs of a list as entries behind a first separator sep, the
\* later ones behind a comma, a newline and ind
RECURSIVE EntriesAfter(_, _, _, _)
EntriesAfter(properties, k, sep, ind) ==
    IF k = 0 THEN <<>>
    ELSE EntriesAfter(properties, k - 1, sep, ind)
            \o (IF k = 1 THEN sep ELSE <<",">> \o NewLine \o ind)
            \o Entry(properties[k][1], properties[k][2])

\* The lists add_properties is tried on: the ones the callers pass, and every
\* list of entries on a writer that has had at most one call
TriedLists == IF calls <= 1 THEN Properties \cup EntryLists ELSE Properties

\* C14: on a JSONWriter, add_properties(properties) leaves the writer as one
\* add_property(name, value) call per pair does, made in the order of the
\* list: every pair is written behind the separator add_property writes.
Thm_C14 ==
    (Json /\ Ok) =>
        \A properties \in TriedLists :
            LET w1 == add_properties(wr, properties) IN
            /\ w1 = add_each(wr, properties, Len(properties))
            /\ w1.content = wr.content
                  \o EntriesAfter(properties, Len(properties),
                                  Separator(wr), SeparatorIndent(wr))

\* add_properties has written a list of two pairs into an open block
Wit_C14 ==
    /\ Json /\ Ok
    /\ calls = 2
    /\ op.name = "add_properties"
    /\ Len(op.properties) = 2
    /\ wr.content = <<"{", "\n", " ", " ", "\"", "a", "\"", ":", " ", "x", ",",
                      "\n", " ", " ", "\"", "A", "\"", ":", " ", "x">>

\* C15: on a JSONWriter, single_tag and single_tag_w_property fail with
\* UnsupportedOperation whatever their arguments and whatever the state of
\* the writer; the buffer, the indent and the comment counter are as they
\* were before the call.
Thm_C15 ==
    /\ (Json /\ Ok) =>
          /\ \A tag \in Tags \cup ProbeNames :
                single_tag(wr, tag) = [ wr EXCEPT !.err = "UnsupportedOperation" ]
          /\ \A tag \in Tags, name \in Names, value \in Values \cup JsonValues :
                single_tag_w_property(wr, tag, name, value)
                    = [ wr EXCEPT !.err = "UnsupportedOperation" ]
    /\ (Json /\ op.name \in { "single_tag", "single_tag_w_property" }) =>
          wr.err = "UnsupportedOperation"

\* single_tag_w_property has failed on a writer with an open block and one
\* comment: the buffer ends with the comment, nothing of the call is in it
Wit_C15 ==
    /\ Json
    /\ calls = 3
    /\ op.name = "single_tag_w_property"
    /\ wr.err = "UnsupportedOperation"
    /\ wr.comment_cnt = 1
    /\ wr.content = <<"{", "\n", " ", " ", "\"", "_", "c", "o", "m", "m", "e", "n", "t",
                      "1", "\"", ":", " ", "\"", "c", "\"">>

\* The name of the n-th comment
CommentName(n) == <<"_", "c", "o", "m", "m", "e", "n", "t">> \o to_string(n)
\* Counter values tried beyond the ones the calls reach: the first ones
\* written with two and with three digits among them
Counts == { 0, 8, 9, 10, 98, 99, 100 }

Widths == 0..MaxWidth
DeepLevels == 0..MaxLevel
indent == wr.core.indent
Spaces(n) == [ i \in 1..n |-> " " ]

\* C17: for every step size, 0 included, and every indent, inc_indent_step()
\* followed at once by dec_indent_step() leaves the indent (and the rest of
\* the writer) as it was.
Thm_C17 ==
    Ok =>
        /\ dec_indent_step(inc_indent_step(wr)) = wr
        /\ \A n \in Widths :
              LET w0 == set_indent_step_size(wr, n) IN
              /\ Len(inc_indent_step(w0).core.indent) = Len(w0.core.indent) + n
              /\ dec_indent_step(inc_indent_step(w0)).core.indent = w0.core.indent

\* An HTMLWriter after line_feed_inc(), inc_indent_step(), dec_indent_step():
\* the indent is the one line_feed_inc() wrote, four spaces
Wit_C17 ==
    /\ wr.kind = "html" /\ Ok
    /\ calls = 3
    /\ op.name = "dec_indent_step"
    /\ wr.core.indent_step_size = 4
    /\ wr.content = <<"\n", " ", " ", " ", " ">>
    /\ indent = <<" ", " ", " ", " ">>

\* k dec_indent_step() calls, one after the other
RECURSIVE dec_times(_, _)
dec_times(w, k) == IF k = 0 THEN w ELSE dec_indent_step(dec_times(w, k - 1))

\* k calls, line_feed_dec() and dec_indent_step() in turn
RECURSIVE dec_mixed(_, _)
dec_mixed(w, k) ==
    IF k = 0 THEN w
    ELSE IF k % 2 = 1 THEN line_feed_dec(dec_mixed(w, k - 1))
    ELSE dec_indent_step(dec_mixed(w, k - 1))

\* The indent one decrease leaves: step_size characters fewer if there are
\* that many, the empty indent otherwise
Decreased(w) ==
    IF Len(w.core.indent) >= w.core.indent_step_size
    THEN SubSeq(w.core.indent, 1, Len(w.core.indent) - w.core.indent_step_size)
    ELSE <<>>

\* One decrease never fails and follows the rule, in dec_indent_step, in
\* line_feed_dec and in the dec_indent_step of writer.rs; nothing but the
\* indent changes in dec_indent_step
DecRule ==
    /\ dec_indent_step(wr) = [ wr EXCEPT !.core.indent = Decreased(wr) ]
    /\ line_feed_dec(wr).core.indent = Decreased(wr)
    /\ line_feed_dec(wr).err = "none"
    /\ writer_WriterCore_dec_indent_step(wr.core).indent = Decreased(wr)
    /\ \A n \in Widths :
          LET w0 == set_indent_step_size(wr, n) IN
          /\ dec_indent_step(w0).core.indent = Decreased(w0)
          /\ writer_WriterCore_dec_indent_step(w0.core).indent = Decreased(w0)
          /\ Len(Decreased(w0)) <= Len(w0.core.indent)
    /\ (indent = <<>>) => dec_indent_step(wr).core.indent = <<>>

Thm_C19 ==
    Ok =>
        /\ \A level \in DeepLevels :
              set_indent_step(wr, level)
                = [ wr EXCEPT !.core.indent = Spaces(level * wr.core.indent_step_size) ]
        /\ op.name = "set_indent_step" =>
              indent = Spaces(op.n * wr.core.indent_step_size)

\* set_indent_step(3) after set_indent_step_size(3) and inc_indent_step():
\* the indent is nine spaces, not three more
Wit_C19 ==
    /\ Ok
    /\ calls = 3
    /\ op.name = "set_indent_step"
    /\ op.n = 3
    /\ wr.core.indent_step_size = 3
    /\ indent = Spaces(9)

NewLines(n) == [ i \in 1..n |-> "\n" ]
\* The n of line_feed(n) tried from every state, 0 among them
FeedCounts == 0..MaxLevel

\* C21: line_feed(n) appends n newline characters and then the indent to the
\* buffer (for n = 0 the indent alone) and changes nothing else;
\* line_feed_inc() is inc_indent_step() then line_feed(1) and line_feed_dec()
\* is dec_indent_step() then line_feed(1): the indent written is the one
\* after the step.
Thm_C21 ==
    Ok =>
        /\ \A n \in FeedCounts :
              line_feed(wr, n) = [ wr EXCEPT !.content = @ \o NewLines(n) \o indent ]
        /\ line_feed(wr, 0).content = wr.content \o indent
        /\ line_feed_inc(wr) = line_feed(inc_indent_step(wr), 1)
        /\ line_feed_dec(wr) = line_feed(dec_indent_step(wr), 1)
        /\ line_feed_inc(wr).content
             = wr.content \o NewLine \o indent \o Spaces(wr.core.indent_step_size)
        /\ line_feed_dec(wr).content = wr.content \o NewLine \o Decreased(wr)
        /\ op.name = "line_feed" =>
              /\ Len(wr.content) >= op.n + Len(indent)
              /\ SubSeq(wr.content, Len(wr.content) - Len(indent) - op.n + 1,
                        Len(wr.content)) = NewLines(op.n) \o indent

\* An HTMLWriter after line_feed_inc(), line_feed(2), line_feed_dec(): a
\* line behind four spaces, two newlines and four spaces, a line without
\* indent
Wit_C21 ==
    /\ wr.kind = "html" /\ Ok
    /\ calls = 3
    /\ op.name = "line_feed_dec"
    /\ wr.content = <<"\n", " ", " ", " ", " ", "\n", "\n", " ", " ", " ", " ", "\n">>
    /\ indent = <<>>

\* The writer its constructor returns, by the type of a writer
New(kind) ==
    IF kind = "html" THEN HTMLWriter_new
    ELSE IF kind = "xml" THEN XMLWriter_new
    ELSE JSONWriter_new

\* C22: clear() on any writer, in any state, leaves the buffer, the indent
\* and the element stack empty and the step size at the value the
\* constructor of the writer's type sets; a second clear() changes nothing.
Thm_C22 ==
    Ok =>
        /\ LET w1 == clear(wr) IN
           /\ w1.content = <<>>
           /\ w1.core.indent = <<>>
           /\ w1.core.block_stack = <<>>
           /\ w1.core.indent_step_size = New(wr.kind).core.indent_step_size
           /\ w1.err = "none"
           /\ clear(w1) = w1
        /\ \A n \in Widths, level \in DeepLevels :
              LET w0 == line_feed(set_indent_step(set_indent_step_size(wr, n), level), 1)
                  w1 == clear(w0)
              IN  /\ w1.content = <<>>
                  /\ w1.core = New(wr.kind).core
                  /\ clear(w1) = w1
        /\ op.name = "clear" =>
              /\ wr.content = <<>>
              /\ wr.core = New(wr.kind).core

\* An HTMLWriter with an element left open, a line written behind an indent
\* of three spaces and the step size 3: clear() takes it to the empty buffer,
\* the empty indent, the empty stack and the step size 4
Wit_C22 ==
    /\ wr.kind = "html" /\ Ok
    /\ calls = 3
    /\ wr.content = <<"<", "a", ">", "\n", " ", " ", " ">>
    /\ wr.core.block_stack = << <<"a">> >>
    /\ wr.core.indent_step_size = 3
    /\ indent = <<" ", " ", " ">>
    /\ clear(wr).content = <<>>
    /\ clear(wr).core = [ indent_step_size |-> 4, indent |-> <<>>, block_stack |-> <<>> ]

\* C23: after clear() a writer cannot be told from a new writer of its type:
\* every call made on it leaves the buffer it leaves on a new writer,
\* add_comment on a JSONWriter among them.
Cex_C23 ==
    (Ok /\ op.name = "clear") =>
        /\ wr.content = New(wr.kind).content
        /\ wr.core = New(wr.kind).core
        /\ \A comment \in Comments :
              add_comment(wr, comment).content
                = add_comment(New(wr.kind), comment).content

\* C24: a call that fails (InvalidNotation, StackUnderflow,
\* UnsupportedOperation) leaves the buffer, the indent and the element stack
\* as they were before the call; open_tag_w_property and
\* single_tag_w_property with a valid tag and an invalid property name are
\* such calls.
Cex_C24 ==
    [][ wr'.err # "none" => (wr'.content = wr.content /\ wr'.core = wr.core) ]_vars

\* C25: a new HTMLWriter and a new XMLWriter have the step size 4, a new
\* JSONWriter has the step size 2.
Cex_C25 ==
    calls = 0 =>
        wr.core.indent_step_size = (IF wr.kind = "json" THEN 2 ELSE 4)

\* ------------------------------------------------- tag-based writers, frame
\* The newline characters of a text
NewLineCount(s) == Cardinality({ i \in 1..Len(s) : s[i] = "\n" })

\* A call left the indent and the step size as they are and put no newline
\* in the buffer
NoFeed(w1) ==
    /\ w1.core.indent = indent
    /\ w1.core.indent_step_size = wr.core.indent_step_size
    /\ NewLineCount(w1.content) <= NewLineCount(wr.content)

\* C26: on an HTMLWriter or XMLWriter, open_tag, close_tag, single_tag,
\* add_property, add_properties and add_comment (and the two composite calls)
\* append no newline and no indentation of their own and leave the indent and
\* the step size as they are, whether they succeed or fail: what open_tag,
\* single_tag, close_tag and add_comment append is the element or the comment
\* and nothing else.
Thm_C26 ==
    (TagBased /\ Ok) =>
        /\ \A tag \in Tags :
              /\ NoFeed(open_tag(wr, tag))
              /\ NoFeed(single_tag(wr, tag))
              /\ open_tag(wr, tag).err = "none" =>
                    open_tag(wr, tag).content = wr.content \o OpenText(tag)
              /\ single_tag(wr, tag).err = "none" =>
                    single_tag(wr, tag).content = wr.content \o OpenText(tag)
        /\ \A tag \in Names, p \in Pairs :
              /\ NoFeed(open_tag_w_property(wr, tag, p[1], p[2]))
              /\ NoFeed(single_tag_w_property(wr, tag, p[1], p[2]))
        /\ \A name \in Names, value \in Values :
              NoFeed(add_property(wr, name, value))
        /\ \A properties \in Properties :
              NoFeed(add_properties(wr, properties))
        /\ \A comment \in Comments :
              /\ NoFeed(add_comment(wr, comment))
              /\ add_comment(wr, comment).content
                   = wr.content \o <<"<", "!", "-", "-", " ">> \o comment
                                \o <<" ", "-", "-", ">">>
        /\ NoFeed(close_tag(wr))
        /\ close_tag(wr).err = "none" =>
              close_tag(wr).content = wr.content \o CloseText(stack[Len(stack)])
        /\ op.name \in { "open_tag", "close_tag", "single_tag", "add_property",
                         "add_properties", "add_comment", "open_tag_w_property",
                         "single_tag_w_property" } =>
              (Len(wr.content) > 0 => wr.content[Len(wr.content)] # "\n")

\* An HTMLWriter after line_feed_inc(), open_tag("a"), add_property("a", "x"):
\* the one newline and the four spaces are those of line_feed_inc()
Wit_C26 ==
    /\ wr.kind = "html" /\ Ok
    /\ calls = 3
    /\ op.name = "add_property"
    /\ wr.content = <<"\n", " ", " ", " ", " ", "<", "a", " ", "a", "=", "\"", "x", "\"", ">">>
    /\ indent = <<" ", " ", " ", " ">>

\* C27: in every state of every writer the indent holds space characters
\* only and its length is level * step_size for some level >= 0.
Cex_C27 ==
    Ok =>
        /\ \A i \in 1..Len(indent) : indent[i] = " "
        /\ \E level \in 0..Len(indent) :
              Len(indent) = level * wr.core.indent_step_size

\* C28: on a tag-based writer, add_property and add_properties take the last
\* character off the buffer only when it is the `>` that ends the element
\* open_tag or single_tag wrote last: never on a buffer that ends otherwise,
\* never the `>` of a closing tag or of a comment.
Cex_C28 ==
    [][ (TagBased /\ op'.name \in { "add_property", "add_properties" }
                  /\ wr'.err = "none")
        => /\ Len(wr.content) > 0
           /\ wr.content[Len(wr.content)] = ">"
           /\ op.name \notin { "close_tag", "add_comment" } ]_vars

\* C29, as stated: whenever a step leaves the element stack shorter than it
\* was, the step is a close_tag() that succeeded and the stack is shorter by
\* exactly one; no other call shortens it.
Cex_C29 ==
    [][ Len(wr'.core.block_stack) < Len(wr.core.block_stack)
        => /\ op'.name = "close_tag"
           /\ wr'.err = "none"
           /\ Len(wr'.core.block_stack) = Len(wr.core.block_stack) - 1 ]_vars

\* C29, amended: whenever a step leaves the element stack shorter than it
\* was, the step is either a close_tag() that succeeded, and the stack is
\* shorter by exactly one, or a clear(), and the stack is empty; no other
\* call shortens it.
Thm_C29 ==
    [][ Len(wr'.core.block_stack) < Len(wr.core.block_stack)
        => \/ /\ op'.name = "close_tag"
              /\ wr'.err = "none"
              /\ Len(wr'.core.block_stack) = Len(wr.core.block_stack) - 1
              /\ wr'.core.block_stack = pop(wr.core.block_stack)
           \/ /\ op'.name = "clear"
              /\ wr'.core.block_stack = <<>> ]_vars

\* An HTMLWriter after open_tag("a"), open_tag("1"), close_tag(): the stack
\* has gone from two elements to one
Wit_C29 ==
    /\ wr.kind = "html" /\ Ok
    /\ calls = 3
    /\ op.name = "close_tag"
    /\ wr.content = <<"<", "a", ">", "<", "1", ">", "<", "/", "1", ">">>
    /\ stack = << <<"a">> >>

\* C30: set_indent_step_size fails when the buffer is no longer empty; it
\* succeeds only on a writer whose buffer is still empty.
Cex_C30 ==
    [][ (op'.name = "set_indent_step_size" /\ wr.content # <<>>)
        => wr'.err # "none" ]_vars

\* ------------------------------------------------------- composite calls
\* Two calls, one after the other: the second is made if the first returned
Then(w1, w2) == IF w1.err # "none" THEN w1 ELSE w2

\* C31: on each of the three writers, whenever open_tag(tag) and the
\* add_property(prop, value) after it both succeed,
\* open_tag_w_property(tag, prop, value) leaves the writer in the state these
\* two calls leave, and so does single_tag_w_property(tag, prop, value) for
\* single_tag(tag) and add_property(prop, value).
Thm_C31 ==
    Ok =>
        \A tag \in Tags, p \in (IF calls <= 1 THEN Pairs \cup ValidPairs ELSE Pairs) :
            /\ LET w1 == open_tag(wr, tag)
                   w2 == Then(w1, add_property(w1, p[1], p[2]))
               IN  w2.err = "none" =>
                      open_tag_w_property(wr, tag, p[1], p[2]) = w2
            /\ LET w1 == single_tag(wr, tag)
                   w2 == Then(w1, add_property(w1, p[1], p[2]))
               IN  w2.err = "none" =>
                      single_tag_w_property(wr, tag, p[1], p[2]) = w2

\* An HTMLWriter after open_tag("a") and open_tag_w_property("1", "a", "x"):
\* the element with its attribute is in the buffer and on the stack
Wit_C31 ==
    /\ wr.kind = "html" /\ Ok
    /\ calls = 2
    /\ op.name = "open_tag_w_property"
    /\ wr.content = <<"<", "a", ">", "<", "1", " ", "a", "=", "\"", "x", "\"", ">">>
    /\ stack = << <<"a">>, <<"1">> >>

\* ------------------------------------------------------- JSON blocks
\* What stands between the start of the line and the name that open_tag
\* writes: the name starts the document when the buffer is empty, otherwise
\* it follows the separator's newline and indent
NameIndent(w) == IF Len(w.content) = 0 THEN <<>> ELSE SeparatorIndent(w)

\* The text open_tag writes after the separator
BlockText(w, tag) ==
    IF tag = <<>> THEN <<"{">>
    ELSE Quote \o tag \o Quote \o <<":">> \o NewLine \o SeparatorIndent(w) \o <<"{">>

\* C32 as stated: every open_tag(tag) step of a JSONWriter appends, after
\* the separator, "tag": with a newline, the current indent and { for a
\* non-empty tag and { alone for an empty one, the brace of a named block
\* stands at the same indent as its name, and the element stack is empty
\* before and after.
Cex_C32 ==
    [][ (Json /\ wr.err = "none" /\ op'.name = "open_tag") =>
           /\ wr'.err = "none"
           /\ wr'.content = wr.content \o Separator(wr) \o BlockText(wr, op'.tag)
           /\ op'.tag # <<>> => wr'.core.indent = NameIndent(wr)
           /\ wr.core.block_stack = <<>> /\ wr'.core.block_stack = <<>>
      ]_vars

\* C32 (amended): in every reachable JSONWriter state the element stack is
\* empty, and open_tag(tag) appends, after the separator, "tag": with a
\* newline, the current indent and { for a non-empty tag and { alone for an
\* empty one, pushing nothing; the brace of a named block stands at the same
\* indent as its name whenever the buffer was not empty before the call.
Thm_C32 ==
    Json =>
        /\ stack = <<>>
        /\ Ok =>
             \A tag \in Tags \cup ProbeNames :
                LET w1 == open_tag(wr, tag) IN
                /\ w1.err = "none"
                /\ w1.content = wr.content \o Separator(wr) \o BlockText(wr, tag)
                /\ w1.core.block_stack = <<>>
                /\ (tag # <<>> /\ Len(wr.content) # 0) =>
                       w1.core.indent = NameIndent(wr)

\* A JSONWriter after open_tag(""), add_property("a", "x") and open_tag("a"):
\* the named block follows a comma, its brace under its name, nothing stacked
Wit_C32 ==
    /\ Json /\ Ok
    /\ calls = 3
    /\ op.name = "open_tag" /\ op.tag = <<"a">>
    /\ wr.content = <<"{", "\n", " ", " ", "\"", "a", "\"", ":", " ", "x",
                      ",", "\n", " ", " ", "\"", "a", "\"", ":",
                      "\n", " ", " ", "{">>
    /\ stack = <<>>

\* C33: close_tag() of a JSONWriter never fails, in any reachable state, a
\* fresh writer and a writer with more closes than opens included: it lowers
\* the indent by one step, to the empty indent when less than a step is left,
\* and appends a newline, the lowered indent and }, changing nothing else;
\* open_tag("") and close_tag() on a fresh writer leave exactly { newline }.
Thm_C33 ==
    /\ (Json /\ op.name = "close_tag") => Ok
    /\ (Json /\ Ok) =>
          close_tag(wr) = [ wr EXCEPT !.core.indent = Decreased(wr),
                                      !.content = @ \o NewLine \o Decreased(wr) \o <<"}">> ]
    /\ (Json /\ calls = 0) =>
          /\ close_tag(wr).err = "none"
          /\ close_tag(open_tag(wr, <<>>)).content = <<"{", "\n", "}">>

\* A JSONWriter after open_tag(""), close_tag(), close_tag(): the second
\* close had no block to close and no indent to lower, and wrote its brace
Wit_C33 ==
    /\ Json /\ Ok
    /\ calls = 3
    /\ op.name = "close_tag"
    /\ closes = 2 /\ opens = 1
    /\ wr.content = <<"{", "\n", "}", "\n", "}">>
    /\ indent = <<>>

\* ------------------------------------------------------- the buffer
IsPrefix(s, t) == Len(s) <= Len(t) /\ SubSeq(t, 1, Len(s)) = s

\* The calls that splice attributes into a written tag
Splices == {"add_property", "add_properties"}

\* C34: the buffer only grows, apart from the retraction of the splice: in
\* every step of every writer other than clear() and the add_property or
\* add_properties of a tag-based writer, the buffer before the call is a
\* prefix of the buffer after it; the add_property and add_properties of a
\* tag-based writer take at most the last character away and append after
\* what is left.
Thm_C34 ==
    [][ /\ (op'.name # "clear" /\ ~(TagBased /\ op'.name \in Splices)) =>
              IsPrefix(wr.content, wr'.content)
        /\ (TagBased /\ op'.name \in Splices) =>
              /\ IsPrefix(pop(wr.content), wr'.content)
              /\ Len(wr.content) - 1 <= Len(wr'.content)
      ]_vars

\* An XMLWriter after open_tag("a") and add_properties of two attributes:
\* the closing bracket was taken back and the attributes follow the name
Wit_C34 ==
    /\ wr.kind = "xml" /\ Ok
    /\ calls = 2
    /\ op.name = "add_properties" /\ Len(op.properties) = 2
    /\ SubSeq(wr.content, 1, 3) = <<"<", "a", " ">>
    /\ wr.content[Len(wr.content)] = ">"
    /\ stack = << <<"a">> >>

\* C35, for a block that is closed without an entry: when close_tag()
\* directly follows the open_tag that wrote the block's brace, in a run
\* without an earlier close, the closing brace stands on a new line behind
\* the indent at which the opening brace was written, and that indent is in
\* force after the close.
Cex_C35 ==
    [][ (Json /\ op.name = "open_tag" /\ closes = 0 /\ op'.name = "close_tag") =>
           /\ wr'.err = "none"
           /\ wr'.content = wr.content \o NewLine \o wr.core.indent \o <<"}">>
           /\ wr'.core.indent = wr.core.indent
      ]_vars

\* C36: when add_property(n1, v1) of a JSONWriter is directly followed by
\* add_property(n2, v2) or open_tag(t), the second call writes one comma and
\* a newline behind v1, the indent unchanged, and its entry after them,
\* whatever the text v1 is, a text ending with { included.
Cex_C36 ==
    [][ (Json /\ op.name = "add_property"
              /\ op'.name \in {"add_property", "open_tag"}) =>
           /\ wr'.err = "none"
           /\ wr'.core.indent = wr.core.indent
           /\ wr'.content =
                 wr.content \o <<",">> \o NewLine \o wr.core.indent
                    \o (IF op'.name = "add_property"
                        THEN Entry(op'.prop, op'.value)
                        ELSE IF op'.tag = <<>> THEN <<"{">>
                        ELSE Quote \o op'.tag \o Quote \o <<":">> \o NewLine
                                \o wr.core.indent \o <<"{">>)
      ]_vars

\* ------------------------------------------------------- the splice, as coded
\* s ends in exactly one closing bracket
EndsInOneBracket(s) ==
    /\ Len(s) >= 2
    /\ s[Len(s)] = ">"
    /\ s[Len(s) - 1] # ">"

\* C37: on a tag-based writer, add_property and add_properties with valid
\* names succeed whatever the buffer holds: the last character of the buffer,
\* whichever it is, is taken away (nothing when the buffer is empty), the
\* attributes and one closing bracket are appended, the result ends in
\* exactly one closing bracket, and stack, indent and step size stay.
Thm_C37 ==
    (TagBased /\ Ok /\ calls < MaxCalls) =>
        /\ \A p \in ValidPairs :
              LET w1 == add_property(wr, p[1], p[2]) IN
              /\ w1 = [ wr EXCEPT !.content = pop(@) \o Attributes(<<p>>) \o <<">">> ]
              /\ Len(wr.content) = 0 => w1.content = Attributes(<<p>>) \o <<">">>
              /\ Len(wr.content) > 0 =>
                    Len(w1.content) = Len(wr.content) - 1 + Len(Attributes(<<p>>)) + 1
              /\ EndsInOneBracket(w1.content)
        /\ \A properties \in ValidProperties :
              LET w1 == add_properties(wr, properties) IN
              /\ w1 = [ wr EXCEPT !.content = pop(@) \o Attributes(properties) \o <<">">> ]
              /\ EndsInOneBracket(w1.content)

\* An HTMLWriter after line_feed(2) and add_property("a", "x"): the second
\* newline was taken away and the attribute stands behind the first
Wit_C37 ==
    /\ wr.kind = "html" /\ Ok
    /\ calls = 2
    /\ op.name = "add_property"
    /\ wr.content = <<"\n", " ", "a", "=", "\"", "x", "\"", ">">>
    /\ stack = <<>> /\ indent = <<>>

\* ------------------------------------------------------- the generations
\* Buffer, indent, step size and element stack of a historical writer
historical_state(h) ==
    IF h.kind = "html"
    THEN [ content |-> h.content, indent |-> h.indent,
           indent_step_size |-> h.indent_step_size, block_stack |-> h.block_stack ]
    ELSE [ content |-> h.core.content, indent |-> h.core.indent,
           indent_step_size |-> h.core.indent_step_size,
           block_stack |-> h.core.block_stack ]

\* The same of a lib.rs writer
writer_state(w) ==
    [ content |-> w.content, indent |-> w.core.indent,
      indent_step_size |-> w.core.indent_step_size,
      block_stack |-> w.core.block_stack ]

\* C38: after every sequence of corresponding calls on a lib.rs writer and on
\* the historical writer of its format (html.rs Writer, xml.rs XMLWriter,
\* json.rs JSONWriter) on which neither has failed, the two hold the same
\* buffer, indent, step size and element stack.
Cex_C38 ==
    (wr.err = "none" /\ old.err = "none") =>
        historical_state(old) = writer_state(wr)

====
